---- MODULE Spec2Model ----
(***************************************************************************)
(* A model of pandas-db (src/pandasdb): the bounded result cache           *)
(* (cache.py), the warm-up performed by Database.__init__ (connection.py)  *)
(* and the positional index resolver IndexLoc (table.py, column.py).       *)
(*                                                                         *)
(* Sizes are counted in units of 0.1 MB, so that the budgets of            *)
(* tests/test_cache.py (max_item_size = 1, max_dict_size = 2) are 10, 20.  *)
(* A query result is the list of its rows; a row is a natural number.      *)
(***************************************************************************)
EXTENDS Integers, Sequences, FiniteSets, TLC

\* ------------------------------------------------------------------ bounds
MaxRows == 3          \* most rows a base table holds
MaxCalls == 3         \* most foreground Cache.execute calls in a session
MaxListLen == 3       \* longest index list handed to IndexLoc
MaxStep == 2          \* largest slice step, in absolute value
MaxFragLen == 3       \* longest predicate fragment composed further, in tokens
MaxViewCalls == 2     \* most view-creating calls in a session
MaxPopulate == 2      \* most populate_table calls on one table

\* ------------------------------------------------ sizes (utils.get_mb_size)
KeySize == 1          \* size of the query text
RowSize == 4          \* size of every row of a result

\* --------------------------------------------------------------- the store
Tables == {"t1", "t2"}
TableOrder == <<"t1", "t2">>      \* order of sqlite_master / Database.items()

Threads == {"main", "fg"} \cup Tables   \* the worker of table t is thread t

ItemBudgets == {0, 10}            \* max_item_size drawn by Init
DictBudgets == {0, 10, 20}           \* max_dict_size drawn by Init

QTables == <<"tables", "">>
QLen(t) == <<"len", t>>
QAll(t) == <<"all", t>>
QType(t) == <<"type", t>>
QInfo(t) == <<"info", t>>
QCount(t) == <<"count", t>>

\* a query the engine refuses (sqlite3.OperationalError)
QBad == <<"bad", "">>

Queries ==
  {QTables, QBad} \cup {<<k, t>> : k \in {"len", "all", "type", "info", "count"}, t \in Tables}

\* the queries foreground callers issue
AdhocQueries == {QTables} \cup {<<k, t>> : k \in {"len", "all"}, t \in Tables}

\* the same with a malformed query among them
AdhocOrBad == AdhocQueries \cup {QBad}

NoEntry == <<-1>>                 \* "query not in self"
NoRows == << >>

VARIABLES
  tables,          \* base tables of the store (sqlite_master, type='table')
  nrows,           \* nrows[t]: number of rows of table t
  cache_output,    \* Cache.cache_output
  max_item_size,   \* Cache.max_item_size
  max_dict_size,   \* Cache.max_dict_size
  populate_cache,  \* Database.__init__ parameter
  cache,           \* the CacheDict mapping: query -> rows, or NoEntry
  mb_size,         \* Cache.mb_size
  ready_count,     \* Cache._ready_count
  pc,              \* pc[th]: position of thread th
  loc,             \* loc[th]: locals of the call thread th is executing
  callers,         \* threads that issue foreground calls
  engine_calls,    \* number of cursor.execute round-trips so far
  ncalls,          \* number of foreground execute calls issued so far
  hist,            \* completed foreground execute calls, oldest first
  started,         \* worker threads started by Database.__init__
  joined,          \* worker threads joined by Database.__init__
  pop_calls,       \* pop_calls[t]: populate_table invocations on table t
  thread_exc,      \* thread_exc[t]: how worker t ended
  constructed,     \* Database.__init__ has returned
  ready_out,       \* value of the last is_ready read, "none" before it
  rel,             \* rows of table t1 in storage order: [rowid, val]
  iloc_len,        \* IndexLoc.len, -1 while no IndexLoc exists
  iloc_out,        \* outcome of the last IndexLoc.__getitem__
  expr_l,          \* an Expression object: [query, table]
  expr_r,          \* another Expression object
  expr_out,        \* outcome of the last expr_l & expr_r or expr_l | expr_r
  conn_open,       \* the sqlite3 connection of the session is open
  views_db,        \* the views the connection's schemas hold
  cache_views,     \* Cache.views
  created,         \* names of the views created in the session so far
  nviews,          \* number of view-creating calls so far
  sess_out         \* outcome of the last call on the session

vars == <<rel, iloc_len, iloc_out, expr_l, expr_r, expr_out, conn_open,
          views_db, cache_views, created, nviews, sess_out, tables, nrows, cache_output, max_item_size, max_dict_size,
          populate_cache, cache, mb_size, ready_count, pc, loc, callers,
          engine_calls, ncalls, hist, started, joined, pop_calls,
          thread_exc, constructed, ready_out>>

config == <<tables, nrows, cache_output, max_item_size, max_dict_size,
            populate_cache, callers>>

ilocvars == <<rel, iloc_len, iloc_out>>

exprvars == <<expr_l, expr_r, expr_out>>

sessvars == <<conn_open, views_db, cache_views, created, nviews, sess_out>>

warmvars == <<started, joined, pop_calls, thread_exc, constructed, ready_out>>

\* ------------------------------------------------------------- the engine
Iota(n) == [i \in 1..n |-> i]

\* cursor.execute(query).fetchall() on the store
EngineEval(q) ==
  IF q = QTables THEN Iota(Cardinality(tables))
  ELSE IF q = QBad THEN NoRows
  ELSE LET t == q[2] IN
    CASE q[1] = "len" -> <<nrows[t]>>
      [] q[1] = "all" -> Iota(nrows[t])
      [] q[1] = "type" -> IF nrows[t] > 0 THEN <<1>> ELSE NoRows
      [] q[1] = "info" -> <<1>>
      [] q[1] = "count" -> <<nrows[t]>>

\* get_mb_size(query, query_out): combined size of the text and the rows
SizeOf(q, out) == KeySize + RowSize * Len(out)

RECURSIVE SumOver(_, _)
SumOver(S, c) ==
  IF S = {} THEN 0
  ELSE LET q == CHOOSE x \in S : TRUE
       IN SizeOf(q, c[q]) + SumOver(S \ {q}, c)

Stored(c) == {q \in Queries : c[q] # NoEntry}

\* the sum of the sizes of the entries of a mapping
SumSizes(c) == SumOver(Stored(c), c)

\* ------------------------------------------------------------ Cache.execute
Blank ==
  [query |-> QTables, ctx |-> "none", table |-> "", stmt |-> 0,
   query_out |-> NoRows,
   out_size |-> 0, tmp |-> 0, ret |-> NoRows, exc |-> "none",
   conn_before |-> TRUE,
   cache_before |-> [q \in Queries |-> NoEntry], mb_before |-> 0,
   engine_before |-> 0]

\* a call of Cache.execute(q) by thread th on behalf of ctx
NewCall(q, ctx, stmt) ==
  [Blank EXCEPT !.query = q, !.ctx = ctx, !.stmt = stmt,
                !.cache_before = cache, !.mb_before = mb_size,
                !.conn_before = conn_open,
                !.engine_before = engine_calls]

\* a lookup that never finds the key
IsHit_Never(q) == FALSE

\* line 83: query in self
IsHit(q) == cache[q] # NoEntry

\* an admission test that compares the running total alone with the budget
Admissible_TotalOnly(size, total) ==
  size <= max_item_size /\ total <= max_dict_size

\* an admission test that forgets the total budget
Admissible_ItemOnly(size, total) == size <= max_item_size

\* line 90: the admission test
Admissible(size, total) ==
  size <= max_item_size /\ size + total <= max_dict_size

\* a test that never finds caching disabled
CachingOff_Never == FALSE

\* line 79: not self.cache_output
CachingOff == ~cache_output

\* cursor.execute(query) raises for this query
Malformed(q) == q = QBad

\* a call that goes on with no rows after the engine has refused the query
AfterEngine_Continue(q) == "x_admit"

\* what cursor.execute(query) raises: ProgrammingError on a closed
\* connection, OperationalError for a query it cannot run, else nothing
EngineError(q) ==
  IF ~conn_open THEN "ProgrammingError"
  ELSE IF Malformed(q) THEN "OperationalError" ELSE "none"

\* lines 86-89: where the call goes after cursor.execute(query).fetchall():
\* on to line 89, or out of execute with the engine's exception
AfterEngine(q) == IF EngineError(q) # "none" THEN "x_raise" ELSE "x_admit"

\* lines 79-84: the cache_output test and the key lookup
ExecBegin(th) ==
  /\ pc[th] = "x_begin"
  /\ IF CachingOff
       THEN /\ pc' = [pc EXCEPT ![th] = "x_nocache"]
            /\ loc' = loc
       ELSE IF IsHit(loc[th].query)
         THEN /\ pc' = [pc EXCEPT ![th] = "x_ret"]
              /\ loc' = [loc EXCEPT ![th].ret = cache[loc[th].query]]
         ELSE /\ pc' = [pc EXCEPT ![th] = "x_engine"]
              /\ loc' = loc
  /\ UNCHANGED <<config, ilocvars, exprvars, sessvars, cache, mb_size, ready_count, engine_calls, ncalls,
                 hist, warmvars>>

\* lines 80-81: caching disabled, run the query and return its rows
ExecNoCache(th) ==
  /\ pc[th] = "x_nocache"
  /\ IF EngineError(loc[th].query) # "none"
       THEN /\ loc' = [loc EXCEPT ![th].exc = EngineError(loc[th].query)]
            /\ pc' = [pc EXCEPT ![th] = "x_raise"]
       ELSE /\ loc' = [loc EXCEPT ![th].ret = EngineEval(loc[th].query)]
            /\ pc' = [pc EXCEPT ![th] = "x_ret"]
  /\ engine_calls' = engine_calls + 1
  /\ UNCHANGED <<config, ilocvars, exprvars, sessvars, cache, mb_size, ready_count, ncalls, hist, warmvars>>

\* lines 86-87: a miss, run the query
ExecEngine(th) ==
  /\ pc[th] = "x_engine"
  /\ pc' = [pc EXCEPT ![th] = AfterEngine(loc[th].query)]
  /\ IF pc'[th] = "x_raise"
       THEN loc' = [loc EXCEPT ![th].exc = EngineError(loc[th].query)]
       ELSE loc' = [loc EXCEPT ![th].query_out = EngineEval(loc[th].query)]
  /\ engine_calls' = engine_calls + 1
  /\ UNCHANGED <<config, ilocvars, exprvars, sessvars, cache, mb_size, ready_count, ncalls, hist, warmvars>>

\* lines 89-90: measure and test against the two budgets
ExecAdmit(th) ==
  /\ pc[th] = "x_admit"
  /\ LET size == SizeOf(loc[th].query, loc[th].query_out) IN
       IF Admissible(size, mb_size)
         THEN /\ loc' = [loc EXCEPT ![th].out_size = size]
              /\ pc' = [pc EXCEPT ![th] = "x_insert"]
         ELSE /\ loc' = [loc EXCEPT ![th].out_size = size,
                                    ![th].ret = loc[th].query_out]
              /\ pc' = [pc EXCEPT ![th] = "x_ret"]
  /\ UNCHANGED <<config, ilocvars, exprvars, sessvars, cache, mb_size, ready_count, engine_calls, ncalls,
                 hist, warmvars>>

\* line 91: self[query] = query_out (CacheDict.__setitem__)
ExecInsert(th) ==
  /\ pc[th] = "x_insert"
  /\ cache' = [cache EXCEPT ![loc[th].query] = loc[th].query_out]
  /\ pc' = [pc EXCEPT ![th] = "x_add_read"]
  /\ UNCHANGED <<config, ilocvars, exprvars, sessvars, mb_size, ready_count, loc, engine_calls, ncalls,
                 hist, warmvars>>

\* line 92, first half: read self.mb_size
ExecAddRead(th) ==
  /\ pc[th] = "x_add_read"
  /\ loc' = [loc EXCEPT ![th].tmp = mb_size]
  /\ pc' = [pc EXCEPT ![th] = "x_add_write"]
  /\ UNCHANGED <<config, ilocvars, exprvars, sessvars, cache, mb_size, ready_count, engine_calls, ncalls,
                 hist, warmvars>>

\* line 92, second half: store the sum; line 94: return query_out
ExecAddWrite(th) ==
  /\ pc[th] = "x_add_write"
  /\ mb_size' = loc[th].tmp + loc[th].out_size
  /\ loc' = [loc EXCEPT ![th].ret = loc[th].query_out]
  /\ pc' = [pc EXCEPT ![th] = "x_ret"]
  /\ UNCHANGED <<config, ilocvars, exprvars, sessvars, cache, ready_count, engine_calls, ncalls, hist,
                 warmvars>>

ExecStep(th) ==
  \/ ExecBegin(th)
  \/ ExecNoCache(th)
  \/ ExecEngine(th)
  \/ ExecAdmit(th)
  \/ ExecInsert(th)
  \/ ExecAddRead(th)
  \/ ExecAddWrite(th)

\* ------------------------------------------------------ foreground callers
\* a foreground caller invokes cache.execute(q)
FgCall(th, q) ==
  /\ th \in callers
  /\ pc[th] = "idle"
  /\ ncalls < MaxCalls
  /\ ncalls' = ncalls + 1
  /\ loc' = [loc EXCEPT ![th] = NewCall(q, "adhoc", 0)]
  /\ pc' = [pc EXCEPT ![th] = "x_begin"]
  /\ UNCHANGED <<config, ilocvars, exprvars, sessvars, cache, mb_size, ready_count, engine_calls, hist,
                 warmvars>>

\* the call returns to the foreground caller, or raises to it
FgReturn(th) ==
  /\ pc[th] \in {"x_ret", "x_raise"}
  /\ loc[th].ctx = "adhoc"
  /\ hist' = Append(hist,
       [thread |-> th, query |-> loc[th].query, ret |-> loc[th].ret,
        exc |-> loc[th].exc, conn_before |-> loc[th].conn_before,
        cache_before |-> loc[th].cache_before, mb_before |-> loc[th].mb_before,
        cache_after |-> cache, mb_after |-> mb_size,
        execs |-> engine_calls - loc[th].engine_before])
  /\ loc' = [loc EXCEPT ![th] = Blank]
  /\ pc' = [pc EXCEPT ![th] = "idle"]
  /\ UNCHANGED <<config, ilocvars, exprvars, sessvars, cache, mb_size, ready_count, engine_calls, ncalls,
                 warmvars>>

\* ------------------------------------------------- Cache.populate_table
\* lines 103-111: the Cache.execute calls populate_table makes, in order, up
\* to the first column's na_count(): table.len, col.type, col.sql_type,
\* col.len, col.count() (table.columns, line 104, reads the store directly)
PopStmts(t) == <<QLen(t), QType(t), QInfo(t), QLen(t), QCount(t)>>

\* _ready_count after a populate_table call that raised, had the call
\* counted all the same
AfterRaise_Counted(count) == count + 1

\* _ready_count after a populate_table call that raised: line 127 is not
\* reached, the counter is as it was
AfterRaise(count) == count

\* the next statement of populate_table issues its query
PopulateCall(t) ==
  /\ pc[t] = "pop"
  /\ loc' = [loc EXCEPT ![t] =
       [NewCall(PopStmts(loc[t].table)[loc[t].stmt], "populate", loc[t].stmt)
          EXCEPT !.table = loc[t].table]]
  /\ pc' = [pc EXCEPT ![t] = "x_begin"]
  /\ UNCHANGED <<config, ilocvars, exprvars, sessvars, cache, mb_size, ready_count, engine_calls, ncalls,
                 hist, warmvars>>

\* the query returns to populate_table. Column.type (column.py line 132)
\* takes [0][0] of its rows and raises IndexError on an empty table; after
\* col.count() line 112 calls col.na_count(), which Column does not define
\* (column.py line 168 names it null_count): AttributeError ends the call
\* before line 127 increments _ready_count.
PopulateReturn(t) ==
  /\ pc[t] = "x_ret"
  /\ loc[t].ctx = "populate"
  /\ IF loc[t].stmt = 2 /\ loc[t].ret = NoRows
       THEN /\ thread_exc' = [thread_exc EXCEPT ![t] = "IndexError"]
            /\ pc' = [pc EXCEPT ![t] = "dead"]
            /\ loc' = [loc EXCEPT ![t] = Blank]
            /\ ready_count' = AfterRaise(ready_count)
       ELSE IF loc[t].stmt = Len(PopStmts(loc[t].table))
         THEN /\ thread_exc' = [thread_exc EXCEPT ![t] = "AttributeError"]
              /\ pc' = [pc EXCEPT ![t] = "dead"]
              /\ loc' = [loc EXCEPT ![t] = Blank]
              /\ ready_count' = AfterRaise(ready_count)
         ELSE /\ thread_exc' = thread_exc
              /\ pc' = [pc EXCEPT ![t] = "pop"]
              /\ loc' = [loc EXCEPT ![t] =
                   [Blank EXCEPT !.table = loc[t].table,
                                 !.stmt = loc[t].stmt + 1]]
              /\ ready_count' = ready_count
  /\ UNCHANGED <<config, ilocvars, exprvars, sessvars, cache, mb_size, engine_calls, ncalls,
                 hist, started, joined, pop_calls, constructed, ready_out>>

\* ------------------------------------------------------- Database.__init__
\* line 91: if cache and populate_cache
WarmupRequested == cache_output /\ populate_cache

\* tables of the store in Database.items() order, without those in S
Pending(S) == SelectSeq(TableOrder, LAMBDA t : t \in tables \ S)

\* line 94: the worker of table t gets kwargs={'table': table}
TargetTable(t) == t

\* a join that does not wait
ThreadDone_NoWait(t) == TRUE

\* line 99: thread.join() returns once the thread has ended
ThreadDone(t) == pc[t] = "dead"

\* lines 93-96: start the worker of the next table
DbStartThread(t) ==
  /\ pc["main"] = "db_init"
  /\ WarmupRequested
  /\ Pending(started) # << >>
  /\ t = Head(Pending(started))
  /\ started' = started \cup {t}
  /\ pc' = [pc EXCEPT ![t] = "t_start"]
  /\ UNCHANGED <<config, ilocvars, exprvars, sessvars, cache, mb_size, ready_count, loc, engine_calls,
                 ncalls, hist, joined, pop_calls, thread_exc, constructed,
                 ready_out>>

\* the started thread enters cache.populate_table(table=...)
WorkerRun(t) ==
  /\ pc[t] = "t_start"
  /\ pop_calls' = [pop_calls EXCEPT ![TargetTable(t)] = @ + 1]
  /\ loc' = [loc EXCEPT ![t] =
       [Blank EXCEPT !.table = TargetTable(t), !.stmt = 1]]
  /\ pc' = [pc EXCEPT ![t] = "pop"]
  /\ UNCHANGED <<config, ilocvars, exprvars, sessvars, cache, mb_size, ready_count, engine_calls, ncalls,
                 hist, started, joined, thread_exc, constructed, ready_out>>

\* lines 98-99: join the next worker, in start order
DbJoinThread(t) ==
  /\ pc["main"] = "db_init"
  /\ WarmupRequested
  /\ started = tables
  /\ Pending(joined) # << >>
  /\ t = Head(Pending(joined))
  /\ ThreadDone(t)
  /\ joined' = joined \cup {t}
  /\ UNCHANGED <<config, ilocvars, exprvars, sessvars, cache, mb_size, ready_count, pc, loc, engine_calls,
                 ncalls, hist, started, pop_calls, thread_exc, constructed,
                 ready_out>>

\* __init__ returns: no warm-up requested, or every worker joined
DbReturn ==
  /\ pc["main"] = "db_init"
  /\ WarmupRequested => (started = tables /\ joined = tables)
  /\ constructed' = TRUE
  /\ pc' = [pc EXCEPT !["main"] = "idle"]
  /\ UNCHANGED <<config, ilocvars, exprvars, sessvars, cache, mb_size, ready_count, loc, engine_calls,
                 ncalls, hist, started, joined, pop_calls, thread_exc,
                 ready_out>>

\* ----------------------------------------------------------- Cache.is_ready
\* line 69: the property runs its table query through execute
IsReadyCall ==
  /\ pc["main"] = "idle"
  /\ constructed
  /\ ncalls < MaxCalls
  /\ ncalls' = ncalls + 1
  /\ loc' = [loc EXCEPT !["main"] = NewCall(QTables, "is_ready", 0)]
  /\ pc' = [pc EXCEPT !["main"] = "x_begin"]
  /\ UNCHANGED <<config, ilocvars, exprvars, sessvars, cache, mb_size, ready_count, engine_calls,
                 hist, warmvars>>

\* line 70: self._ready_count == len(tables)
IsReadyReturn ==
  /\ pc["main"] = "x_ret"
  /\ loc["main"].ctx = "is_ready"
  /\ ready_out' = IF ready_count = Len(loc["main"].ret) THEN "true" ELSE "false"
  /\ loc' = [loc EXCEPT !["main"] = Blank]
  /\ pc' = [pc EXCEPT !["main"] = "idle"]
  /\ UNCHANGED <<config, ilocvars, exprvars, sessvars, cache, mb_size, ready_count, engine_calls, ncalls,
                 hist, started, joined, pop_calls, thread_exc, constructed>>

\* ------------------------------------------------------------------ IndexLoc
Vals == {"a", "b"}                \* contents a row can have

\* the relations of n rows with identities 1..n
Relations(n) ==
  {[i \in 1..n |-> [rowid |-> i, val |-> f[i]]] : f \in [1..n -> Vals]}

\* the relations of n rows a table holds after rows were deleted: the
\* identities increase and lie in 1..MaxRows + 1
GappedRelations(n) ==
  {[i \in 1..n |-> [rowid |-> ids[i], val |-> f[i]]] :
     ids \in {g \in [1..n -> 1..(MaxRows + 1)] :
                \A i \in 1..n, j \in 1..n : i < j => g[i] < g[j]},
     f \in [1..n -> Vals]}

\* Table.__iter__: the rows in the relation's order
Enumerate(r) == [k \in 1..Len(r) |-> r[k].val]

\* SELECT ... WHERE _rowid_ == k (fetchall)
FetchEq(r, k) == SelectSeq(r, LAMBDA x : x.rowid = k)

\* SELECT _rowid_, ... WHERE _rowid_ IN S
FetchIn(r, S) == SelectSeq(r, LAMBDA x : x.rowid \in S)

\* slice(None, None, None): a bound that is None is the empty sequence
NoSlice == [start |-> << >>, stop |-> << >>, step |-> << >>]

NoOut ==
  [kind |-> "none", idx |-> 0, lst |-> << >>, slc |-> NoSlice,
   status |-> "none", row |-> "", rows |-> << >>, fetches |-> 0]

\* ---------------------------------------------------------------- Expression
\* Expression(query, table); the fragment is its text as a list of tokens
Expression(query, table) == [query |-> query, table |-> table]

\* the Expression objects a column comparison returns
AtomExprs == {Expression(<<f>>, t) : f \in {"p", "q"}, t \in Tables}

NoExprOut ==
  [op |-> "none", status |-> "none", res |-> Expression(<< >>, ""),
   left |-> Expression(<< >>, ""), right |-> Expression(<< >>, "")]

\* a test that takes any two relations for the same
SameTable_Always(a, b) == TRUE

\* lines 36 and 54: self.table == expression.table
SameTable(a, b) == a.table = b.table

\* lines 25-59: a & b for op "AND", a | b for op "OR"
Compose(op, a, b) ==
  IF ~SameTable(a, b)
    THEN [NoExprOut EXCEPT !.op = op, !.status = "ExpressionError",
                           !.left = a, !.right = b]
    ELSE [NoExprOut EXCEPT !.op = op, !.status = "ok", !.left = a, !.right = b,
                           !.res = Expression(a.query \o <<op>> \o b.query, a.table)]

\* expr_l & expr_r
ExprAnd ==
  /\ expr_out = NoExprOut
  /\ expr_out' = Compose("AND", expr_l, expr_r)
  /\ UNCHANGED <<config, ilocvars, sessvars, expr_l, expr_r, cache, mb_size, ready_count,
                 pc, loc, engine_calls, ncalls, hist, warmvars>>

\* expr_l | expr_r
ExprOr ==
  /\ expr_out = NoExprOut
  /\ expr_out' = Compose("OR", expr_l, expr_r)
  /\ UNCHANGED <<config, ilocvars, sessvars, expr_l, expr_r, cache, mb_size, ready_count,
                 pc, loc, engine_calls, ncalls, hist, warmvars>>

\* the caller goes on with the predicate it got, as the left or as the right
\* operand, and another column comparison
ExprReuse ==
  /\ expr_out.status = "ok"
  /\ Len(expr_out.res.query) <= MaxFragLen
  /\ \E e \in AtomExprs :
       \/ expr_l' = expr_out.res /\ expr_r' = e
       \/ expr_l' = e /\ expr_r' = expr_out.res
  /\ expr_out' = NoExprOut
  /\ UNCHANGED <<config, ilocvars, sessvars, cache, mb_size, ready_count, pc, loc,
                 engine_calls, ncalls, hist, warmvars>>

\* column.py line 709: the comparison a fragment stands for, on the one
\* column of t1: p is "val = 'a'", q is "val = 'b'"
AtomHolds(f, v) == IF f = "p" THEN v = "a" ELSE v = "b"

\* the engine's reading of WHERE <text> on a row: AND binds tighter than OR,
\* so the text is a disjunction of its OR-free stretches
Holds(text, v) ==
  LET ors == {0, Len(text) + 1} \cup {k \in 1..Len(text) : text[k] = "OR"}
  IN \E a \in ors, b \in ors :
       /\ a < b
       /\ \A k \in ors : ~(a < k /\ k < b)
       /\ \A k \in (a + 1)..(b - 1) : text[k] = "AND" \/ AtomHolds(text[k], v)

\* --------------------------------------------------------------------- views
\* a name is a list of its parts; a text is a list of its pieces
BaseName == <<"t1">>
Suffixes == {"x", "y"}            \* what get_random_name returns

\* pieces of a query text that continue an identifier
IdentPieces == {"_rowid_", "rowid", "val", "2"}

\* the texts a caller hands to _create_and_get_temp_view
CustomQueries ==
  { <<"SELECT ", "*", " FROM t1", " LIMIT 2">>,
    <<"SELECT ", "rowid", " AS ", "_rowid_", ", ", "*", " FROM t1">>,
    <<"SELECT ", "val", " AS ", "_rowid_", "2", ", ", "*", " FROM t1">>,
    <<"SELECT ", "1", " AS ", "_rowid_", ", ", "*", " FROM t1">> }

\* the engine's reading of a text: some column is aliased to _rowid_
AliasesRowid(text) ==
  \E i \in 1..(Len(text) - 1) :
    /\ text[i] = " AS " /\ text[i + 1] = "_rowid_"
    /\ (i + 2 <= Len(text) => text[i + 2] \notin IdentPieces)

\* table.py line 339: 'AS _rowid_' in query
HasAliasText(text) ==
  \E i \in 1..(Len(text) - 1) : text[i] = " AS " /\ text[i + 1] = "_rowid_"

NoView ==
  [name |-> << >>, src |-> << >>, kind |-> "none", pred |-> << >>, asc |-> TRUE,
   n |-> 0, text |-> << >>, temp |-> TRUE]

NoSessOut ==
  [op |-> "none", status |-> "none", name |-> << >>, view |-> NoView,
   ids |-> << >>, from |-> << >>, before |-> {}, warned |-> FALSE]

ViewNames(db) == {v.name : v \in db}

ViewNamed(db, name) == CHOOSE v \in db : v.name = name

\* a view that outlives the connection
IsTemp_Persistent == FALSE

\* utils.py line 139: CREATE TEMP VIEW
IsTemp == TRUE

\* a caller that asks for an existing view to be replaced
DropIfExists_True == TRUE

\* table.py line 346: drop_if_exists=False
DropIfExists == FALSE

\* an identity column that keeps the source's identities
RowNumber_Source(k, srcid) == srcid

\* ROW_NUMBER() OVER (ORDER BY ...): the rank of the k-th row
RowNumber(k, srcid) == k

RECURSIVE Ascending(_)
Ascending(S) ==
  IF S = {} THEN << >>
  ELSE LET m == CHOOSE x \in S : \A y \in S : x <= y
       IN <<m>> \o Ascending(S \ {m})

\* the source identities of the rows that WHERE keeps, ORDER BY _rowid_
FilterFrom(r, pred) ==
  Ascending({r[k].rowid : k \in {j \in 1..Len(r) : Holds(pred, r[j].val)}})

\* a ranking that follows the source's identities, not the sort key
SortFrom_Storage(r, asc) == Ascending({r[k].rowid : k \in 1..Len(r)})

\* the source identities in the order ORDER BY val ASC / DESC leaves them
\* (rows with equal keys keep the source's order)
SortFrom(r, asc) ==
  LET ids(v) == Ascending({r[k].rowid : k \in {j \in 1..Len(r) : r[j].val = v}})
  IN IF asc THEN ids("a") \o ids("b") ELSE ids("b") \o ids("a")

ValOf(r, id) == (CHOOSE x \in {r[k] : k \in 1..Len(r)} : x.rowid = id).val

\* what _rowid_ is in a row of the view a caller's text defines: the
\* source's identity or the constant the text aliases; 0 stands for the NULL
\* the engine yields when the view has no column of that name
AliasedId(text, srcid) ==
  IF ~AliasesRowid(text) THEN 0
  ELSE IF text[2] = "1" THEN 1 ELSE srcid

\* a limit that stops one row early
WithinLimit_Strict(id, n) == id < n

\* table.py line 328: WHERE _rowid_ <= n
WithinLimit(id, n) == id <= n

\* the rows a view definition yields over the rows of its source
Materialize(v, r) ==
  CASE v.kind = "filter" ->
         LET from == FilterFrom(r, v.pred)
         IN [k \in 1..Len(from) |->
               [rowid |-> RowNumber(k, from[k]), val |-> ValOf(r, from[k])]]
    [] v.kind = "sort" ->
         LET from == SortFrom(r, v.asc)
         IN [k \in 1..Len(from) |->
               [rowid |-> RowNumber(k, from[k]), val |-> ValOf(r, from[k])]]
    [] v.kind = "limit" -> SelectSeq(r, LAMBDA x : WithinLimit(x.rowid, v.n))
    [] OTHER -> [k \in 1..Len(r) |->
                  [rowid |-> AliasedId(v.text, r[k].rowid), val |-> r[k].val]]

\* the rows of a relation of the session: the base table or a view
RECURSIVE RelOf(_, _)
RelOf(db, name) ==
  IF name = BaseName THEN rel
  ELSE LET v == ViewNamed(db, name) IN Materialize(v, RelOf(db, v.src))

Identities(r) == [k \in 1..Len(r) |-> r[k].rowid]

\* ------------------------------------------------- IndexLoc.__getitem__
\* the rows of the relation called name, as the connection yields them
Rows(name) == RelOf(views_db, name)

\* IndexLoc.__init__: the object holds its relation and the length it had
IndexLoc(table, len) == [table |-> table, len |-> len]

\* a normalisation that takes the absolute value
index_abs_Abs(self, idx) == IF idx < 0 THEN -idx ELSE idx

\* IndexLoc.index_abs
index_abs(self, idx) == IF idx < 0 THEN self.len + idx ELSE idx

\* IndexLoc.validate_index: TRUE when no IndexError is raised
validate_index(self, idx) == 0 <= idx /\ idx < self.len

\* a re-expansion that returns the fetched rows as the store yields them
Expand_Fetched(indexes, rows) == [k \in 1..Len(rows) |-> rows[k].val]

\* lines 103-104: idx_row_mapping and the list rebuilt from the caller's
\* indexes; "KeyError" when an identity was not fetched
Expand(indexes, rows) ==
  LET ids == {rows[k].rowid : k \in 1..Len(rows)}
      mapping == [id \in ids |->
                    (CHOOSE x \in {rows[k] : k \in 1..Len(rows)} : x.rowid = id).val]
  IN IF \A k \in 1..Len(indexes) : indexes[k] \in ids
       THEN [k \in 1..Len(indexes) |-> mapping[indexes[k]]]
       ELSE <<"KeyError">>

\* lines 74-81: the outcome of iloc[i]
GetInt(self, i) ==
  LET a == index_abs(self, i) IN
    IF ~validate_index(self, a)
      THEN [NoOut EXCEPT !.kind = "int", !.idx = i, !.status = "IndexError"]
      ELSE LET got == FetchEq(Rows(self.table), a + 1) IN
        IF got = << >>
          THEN [NoOut EXCEPT !.kind = "int", !.idx = i, !.fetches = 1,
                             !.status = "IndexError"]
          ELSE [NoOut EXCEPT !.kind = "int", !.idx = i, !.fetches = 1,
                             !.status = "ok", !.row = got[1].val]

\* lines 91-104: the outcome of iloc[L]
GetList(self, L) ==
  LET abs == [k \in 1..Len(L) |-> index_abs(self, L[k])] IN
    IF \E k \in 1..Len(L) : ~validate_index(self, abs[k])
      THEN [NoOut EXCEPT !.kind = "list", !.lst = L, !.status = "IndexError"]
      ELSE LET indexes == [k \in 1..Len(L) |-> abs[k] + 1]
               unique_indexes == {indexes[k] : k \in 1..Len(L)}
               out == Expand(indexes, FetchIn(Rows(self.table), unique_indexes))
           IN IF out = <<"KeyError">>
                THEN [NoOut EXCEPT !.kind = "list", !.lst = L, !.fetches = 1,
                                   !.status = "KeyError"]
                ELSE [NoOut EXCEPT !.kind = "list", !.lst = L, !.fetches = 1,
                                   !.status = "ok", !.rows = out]

\* the indexes a caller passes
IdxRange == (0 - MaxRows - 1)..(MaxRows + 1)

Max2(a, b) == IF a >= b THEN a ELSE b
Min2(a, b) == IF a <= b THEN a ELSE b

\* the step of a slice, None meaning 1
StepOf(s) == IF s.step = << >> THEN 1 ELSE s.step[1]

\* slice.indices(n) for a step other than 0: <<start, stop, step>>
slice_indices(s, n) ==
  LET step == StepOf(s)
      lower == IF step < 0 THEN -1 ELSE 0
      upper == IF step < 0 THEN n - 1 ELSE n
      clip(b, none) ==
        IF b = << >> THEN none
        ELSE IF b[1] < 0 THEN Max2(b[1] + n, lower) ELSE Min2(b[1], upper)
  IN <<clip(s.start, IF step < 0 THEN upper ELSE lower),
       clip(s.stop, IF step < 0 THEN lower ELSE upper), step>>

\* range(start, stop, step) as a sequence
RangeSeq(ind) ==
  LET start == ind[1]  stop == ind[2]  step == ind[3]
      count == IF step > 0
                 THEN (IF stop > start THEN (stop - start + step - 1) \div step ELSE 0)
                 ELSE (IF start > stop THEN (start - stop - step - 1) \div (0 - step) ELSE 0)
  IN [k \in 1..count |-> start + (k - 1) * step]

\* a translation that keeps the 0-based positions
SliceIndexes_NoShift(self, s) == RangeSeq(slice_indices(s, self.len))

\* lines 84-85: the identities a slice asks for
SliceIndexes(self, s) ==
  LET r == RangeSeq(slice_indices(s, self.len)) IN [k \in 1..Len(r) |-> r[k] + 1]

\* lines 83-89: the outcome of iloc[s]; slice.indices raises ValueError for
\* a step of 0
GetSlice(self, s) ==
  IF StepOf(s) = 0
    THEN [NoOut EXCEPT !.kind = "slice", !.slc = s, !.status = "ValueError"]
    ELSE LET indexes == SliceIndexes(self, s)
             got == FetchIn(Rows(self.table), {indexes[k] : k \in 1..Len(indexes)})
         IN [NoOut EXCEPT !.kind = "slice", !.slc = s, !.fetches = 1,
                          !.status = "ok", !.rows = Enumerate(got)]

\* the bounds and steps of the slices a caller passes
SliceBounds == {<< >>} \cup {<<i>> : i \in IdxRange}
SliceSteps == {<< >>} \cup {<<i>> : i \in (0 - MaxStep)..MaxStep}

RECURSIVE SeqsUpTo(_, _)
SeqsUpTo(S, n) ==
  IF n = 0 THEN {<< >>}
  ELSE LET shorter == SeqsUpTo(S, n - 1)
       IN shorter \cup {Append(q, x) : q \in {z \in shorter : Len(z) = n - 1}, x \in S}

\* Table.len of the relation called name: the row count SELECT COUNT(*)
\* returns
TableLen(name) ==
  IF name = BaseName THEN EngineEval(QLen("t1"))[1] ELSE Len(Rows(name))

\* Table.iloc of the relation called name
TableIloc(name) == IndexLoc(name, TableLen(name))

\* the IndexLoc object of the session, built on t1
Iloc == IndexLoc(BaseName, iloc_len)

\* Table.iloc: IndexLoc(self), whose len is len(table), the row count
\* Cache.execute returns for SELECT COUNT(*)
IlocNew ==
  /\ iloc_len' = EngineEval(QLen("t1"))[1]
  /\ iloc_out' = NoOut
  /\ UNCHANGED <<config, exprvars, sessvars, rel, cache, mb_size, ready_count, pc, loc,
                 engine_calls, ncalls, hist, warmvars>>

\* table.iloc[i] for an int: IndexLoc.__getitem__ on the IndexLoc the iloc
\* property has just built (every access builds a new one)
IlocGetInt ==
  /\ iloc_len >= 0
  /\ iloc_out = NoOut
  /\ \E i \in IdxRange : iloc_out' = GetInt(Iloc, i)
  /\ UNCHANGED <<config, exprvars, sessvars, rel, iloc_len, cache, mb_size, ready_count, pc, loc,
                 engine_calls, ncalls, hist, warmvars>>

\* table.iloc[L] for a list
IlocGetList ==
  /\ iloc_len >= 0
  /\ iloc_out = NoOut
  /\ \E L \in SeqsUpTo(IdxRange, MaxListLen) : iloc_out' = GetList(Iloc, L)
  /\ UNCHANGED <<config, exprvars, sessvars, rel, iloc_len, cache, mb_size, ready_count, pc, loc,
                 engine_calls, ncalls, hist, warmvars>>

\* table.iloc[s] for a slice
IlocGetSlice ==
  /\ iloc_len >= 0
  /\ iloc_out = NoOut
  /\ \E a \in SliceBounds, b \in SliceBounds, c \in SliceSteps :
       iloc_out' = GetSlice(Iloc, [start |-> a, stop |-> b, step |-> c])
  /\ UNCHANGED <<config, exprvars, sessvars, rel, iloc_len, cache, mb_size, ready_count, pc, loc,
                 engine_calls, ncalls, hist, warmvars>>

\* utils.create_temp_view on an open connection: <<status, schema after>>
create_temp_view(db, v, drop_if_exists) ==
  IF v.name \in ViewNames({w \in db : w.temp})
    THEN IF drop_if_exists
           THEN <<"ok", (db \ {ViewNamed(db, v.name)}) \cup {v}>>
           ELSE <<"ViewAlreadyExists", db>>
    ELSE <<"ok", db \cup {v}>>

\* Table._create_and_get_temp_view, lines 339-353, for the view definition v
CreateView(op, v) ==
  /\ nviews < MaxViewCalls
  /\ nviews' = nviews + 1
  /\ IF v.kind = "custom" /\ ~HasAliasText(v.text)
       THEN /\ sess_out' = [NoSessOut EXCEPT !.op = op, !.status = "ValueError",
                                  !.name = v.name, !.view = v, !.before = views_db]
            /\ UNCHANGED <<views_db, created>>
       ELSE IF ~conn_open
         THEN /\ sess_out' = [NoSessOut EXCEPT !.op = op, !.name = v.name, !.view = v,
                                !.status = "ProgrammingError", !.before = views_db]
              /\ UNCHANGED <<views_db, created>>
         ELSE LET out == create_temp_view(views_db, v, DropIfExists) IN
              /\ views_db' = out[2]
              /\ created' = IF out[1] = "ok" THEN created \cup {v.name} ELSE created
              /\ sess_out' =
                   [NoSessOut EXCEPT !.op = op, !.status = out[1], !.name = v.name,
                      !.view = v, !.before = views_db,
                      !.ids = IF out[1] = "ok" /\ v.kind # "custom"
                                THEN Identities(RelOf(out[2], v.name)) ELSE << >>,
                      !.from = IF out[1] = "ok" /\ v.kind = "filter"
                                 THEN FilterFrom(RelOf(views_db, v.src), v.pred)
                                 ELSE << >>]
  /\ UNCHANGED <<config, ilocvars, exprvars, conn_open, cache_views, cache,
                 mb_size, ready_count, pc, loc, engine_calls, ncalls, hist,
                 warmvars>>

\* the names get_random_name can return to a call: names are random, so
\* the first one a session draws is called "x"
NextSuffixes == IF \E v \in views_db : v.kind # "custom" THEN Suffixes ELSE {"x"}

\* the relations a view-creating method is called on
Sources == {BaseName} \cup {v.name : v \in {w \in views_db : w.kind # "custom"}}

\* the predicates a caller filters by: a column comparison of t1, or the
\* two comparisons composed with & or |
FilterExprs ==
  {e \in AtomExprs : e.table = "t1"}
    \cup {Compose(op, Expression(<<"p">>, "t1"), Expression(<<"q">>, "t1")).res :
            op \in {"AND", "OR"}}

\* Table.filter(expression), lines 278-284
TableFilter ==
  \E src \in Sources, pred \in {e.query : e \in FilterExprs}, sfx \in NextSuffixes :
    CreateView("filter",
      [NoView EXCEPT !.name = <<"_table_">> \o src \o <<sfx>>, !.src = src,
                     !.kind = "filter", !.pred = pred, !.temp = IsTemp])

\* Table.sort_values(column, ascending), lines 299-319
TableSort ==
  \E src \in Sources, asc \in BOOLEAN, sfx \in NextSuffixes :
    CreateView("sort",
      [NoView EXCEPT !.name = <<"_table_sorted_">> \o src \o <<sfx>>, !.src = src,
                     !.kind = "sort", !.asc = asc, !.temp = IsTemp])

\* the sizes a caller limits to: none, fewer than the rows, more than any
\* table holds
LimitSizes == {0, 1, 2, MaxRows + 1}

\* Table.limit(n), lines 327-329
TableLimit ==
  \E src \in Sources, n \in LimitSizes, sfx \in NextSuffixes :
    CreateView("limit",
      [NoView EXCEPT !.name = <<"_table_limit_">> \o src \o <<sfx>>, !.src = src,
                     !.kind = "limit", !.n = n, !.temp = IsTemp])

\* Table._create_and_get_temp_view(view_name, query) with the caller's text
TableCustomView ==
  \E text \in CustomQueries :
    CreateView("custom",
      [NoView EXCEPT !.name = <<"test_view">>, !.src = BaseName,
                     !.kind = "custom", !.text = text, !.temp = IsTemp])

\* Table.filter(expression) on t1 with the predicate just composed
ExprFilter ==
  /\ expr_out.status = "ok"
  /\ expr_out.res.table = "t1"
  /\ \E sfx \in NextSuffixes :
       CreateView("filter",
         [NoView EXCEPT !.name = <<"_table_">> \o BaseName \o <<sfx>>,
                        !.src = BaseName, !.kind = "filter",
                        !.pred = expr_out.res.query, !.temp = IsTemp])

\* Database.exit, lines 224-227: close an open connection, which ends its
\* temporary views; warn on a closed one
DbExit ==
  /\ pc["main"] = "idle"
  /\ sess_out.op # "exit" \/ ~sess_out.warned
  /\ IF conn_open
       THEN /\ conn_open' = FALSE
            /\ views_db' = {v \in views_db : ~v.temp}
            /\ sess_out' = [NoSessOut EXCEPT !.op = "exit", !.status = "ok",
                                             !.before = views_db]
       ELSE /\ UNCHANGED <<conn_open, views_db>>
            /\ sess_out' = [NoSessOut EXCEPT !.op = "exit", !.status = "ok",
                                             !.before = views_db, !.warned = TRUE]
  /\ UNCHANGED <<config, ilocvars, exprvars, cache_views, created, nviews, cache,
                 mb_size, ready_count, pc, loc, engine_calls, ncalls, hist,
                 warmvars>>

\* Database.query(sql_query), lines 184-185: the query goes to the
\* connection, not through the cache
DbQuery(q) ==
  /\ pc["main"] = "idle"
  /\ sess_out' = [NoSessOut EXCEPT !.op = "query", !.before = views_db,
                    !.status = IF EngineError(q) # "none" THEN EngineError(q)
                               ELSE "ok"]
  /\ UNCHANGED <<config, ilocvars, exprvars, conn_open, views_db, cache_views,
                 created, nviews, cache, mb_size, ready_count, pc, loc,
                 engine_calls, ncalls, hist, warmvars>>

\* cache.populate_table(table) called by the session's own thread, on a
\* table of the store
FgPopulate(t) ==
  /\ pc["main"] = "idle"
  /\ constructed
  /\ t \in tables
  /\ pop_calls[t] < MaxPopulate
  /\ pop_calls' = [pop_calls EXCEPT ![t] = @ + 1]
  /\ loc' = [loc EXCEPT !["main"] = [Blank EXCEPT !.table = t, !.stmt = 1]]
  /\ pc' = [pc EXCEPT !["main"] = "pop"]
  /\ UNCHANGED <<config, ilocvars, exprvars, sessvars, cache, mb_size, ready_count, engine_calls, ncalls,
                 hist, started, joined, thread_exc, constructed, ready_out>>

\* a query returns to the populate_table call of the session's thread: the
\* exceptions of PopulateReturn reach the caller
FgPopulateReturn ==
  /\ pc["main"] = "x_ret"
  /\ loc["main"].ctx = "populate"
  /\ IF loc["main"].stmt = 2 /\ loc["main"].ret = NoRows
       THEN /\ sess_out' = [NoSessOut EXCEPT !.op = "populate", !.status = "IndexError"]
            /\ pc' = [pc EXCEPT !["main"] = "idle"]
            /\ loc' = [loc EXCEPT !["main"] = Blank]
            /\ ready_count' = AfterRaise(ready_count)
       ELSE IF loc["main"].stmt = Len(PopStmts(loc["main"].table))
         THEN /\ sess_out' = [NoSessOut EXCEPT !.op = "populate", !.status = "AttributeError"]
              /\ pc' = [pc EXCEPT !["main"] = "idle"]
              /\ loc' = [loc EXCEPT !["main"] = Blank]
              /\ ready_count' = AfterRaise(ready_count)
         ELSE /\ sess_out' = sess_out
              /\ pc' = [pc EXCEPT !["main"] = "pop"]
              /\ loc' = [loc EXCEPT !["main"] =
                   [Blank EXCEPT !.table = loc["main"].table,
                                 !.stmt = loc["main"].stmt + 1]]
              /\ ready_count' = ready_count
  /\ UNCHANGED <<config, ilocvars, exprvars, conn_open, views_db, cache_views, created, nviews,
                 cache, mb_size, engine_calls, ncalls, hist, warmvars>>

\* a base table is created in the store through the session's connection
\* (Database.conn) after the session was constructed
StoreCreateTable(t) ==
  /\ pc["main"] = "idle"
  /\ constructed
  /\ t \notin tables
  /\ tables' = tables \cup {t}
  /\ UNCHANGED <<nrows, cache_output, max_item_size, max_dict_size, populate_cache,
                 callers, ilocvars, exprvars, sessvars, cache, mb_size, ready_count,
                 pc, loc, engine_calls, ncalls, hist, warmvars>>

\* ---------------------------------------------------------- initial states
StoreInit ==
  /\ tables \in {{}, {"t1"}, {"t1", "t2"}}
  /\ nrows \in [Tables -> 0..MaxRows]
  /\ \A t \in Tables \ tables : nrows[t] = 0
  /\ rel = [i \in 1..nrows["t1"] |-> [rowid |-> i, val |-> "a"]]
  /\ expr_l = Expression(<<"p">>, "t1")
  /\ expr_r = Expression(<<"q">>, "t1")

CacheInit ==
  /\ cache_output \in BOOLEAN
  /\ max_item_size \in ItemBudgets
  /\ max_dict_size \in DictBudgets
  /\ cache = [q \in Queries |-> NoEntry]
  /\ mb_size = 0
  /\ ready_count = 0
  /\ loc = [th \in Threads |-> Blank]
  /\ engine_calls = 0
  /\ ncalls = 0
  /\ hist = << >>
  /\ ready_out = "none"
  /\ iloc_len = -1
  /\ iloc_out = NoOut
  /\ expr_out = NoExprOut
  /\ conn_open = TRUE
  /\ views_db = {}
  /\ cache_views = << >>
  /\ created = {}
  /\ nviews = 0
  /\ sess_out = NoSessOut

\* a constructed session without warm-up, used by two threads; every table
\* holds two rows
Init ==
  /\ tables = Tables
  /\ nrows = [t \in Tables |-> 2]
  /\ rel = [i \in 1..2 |-> [rowid |-> i, val |-> "a"]]
  /\ expr_l = Expression(<<"p">>, "t1")
  /\ expr_r = Expression(<<"q">>, "t1")
  /\ CacheInit
  /\ populate_cache = FALSE
  /\ callers = {"main", "fg"}
  /\ pc = [th \in Threads |-> IF th \in Tables THEN "unstarted" ELSE "idle"]
  /\ started = {}
  /\ joined = {}
  /\ pop_calls = [t \in Tables |-> 0]
  /\ thread_exc = [t \in Tables |-> "none"]
  /\ constructed = TRUE

\* the same session used by one thread
SeqInit ==
  /\ StoreInit
  /\ tables = Tables
  /\ CacheInit
  /\ populate_cache = FALSE
  /\ callers = {"main"}
  /\ pc = [th \in Threads |-> IF th \in Tables THEN "unstarted" ELSE "idle"]
  /\ started = {}
  /\ joined = {}
  /\ pop_calls = [t \in Tables |-> 0]
  /\ thread_exc = [t \in Tables |-> "none"]
  /\ constructed = TRUE

\* Database(db_path, cache, populate_cache, max_item_size, max_dict_size)
\* at line 91, the Cache and the Table objects built
WarmInit ==
  /\ StoreInit
  /\ CacheInit
  /\ populate_cache \in BOOLEAN
  /\ callers = {}
  /\ pc = [th \in Threads |->
            IF th \in Tables THEN "unstarted"
            ELSE IF th = "main" THEN "db_init" ELSE "idle"]
  /\ started = {}
  /\ joined = {}
  /\ pop_calls = [t \in Tables |-> 0]
  /\ thread_exc = [t \in Tables |-> "none"]
  /\ constructed = FALSE

Next ==
  \/ \E th \in Threads, q \in AdhocQueries : FgCall(th, q)
  \/ \E th \in Threads : ExecStep(th)
  \/ \E th \in Threads : FgReturn(th)

Spec == Init /\ [][Next]_vars

SpecSeq == SeqInit /\ [][Next]_vars

\* one thread whose queries include a malformed one
NextErr ==
  \/ \E th \in Threads, q \in AdhocOrBad : FgCall(th, q)
  \/ \E th \in Threads : ExecStep(th)
  \/ \E th \in Threads : FgReturn(th)

SpecErr == SeqInit /\ [][NextErr]_vars

\* a session of one thread that queries and is closed
ExitInit ==
  /\ tables = Tables
  /\ nrows = [t \in Tables |-> 2]
  /\ rel = [i \in 1..2 |-> [rowid |-> i, val |-> "a"]]
  /\ expr_l = Expression(<<"p">>, "t1")
  /\ expr_r = Expression(<<"q">>, "t1")
  /\ CacheInit
  /\ populate_cache = FALSE
  /\ callers = {"main"}
  /\ pc = [th \in Threads |-> IF th \in Tables THEN "unstarted" ELSE "idle"]
  /\ started = {}
  /\ joined = {}
  /\ pop_calls = [t \in Tables |-> 0]
  /\ thread_exc = [t \in Tables |-> "none"]
  /\ constructed = TRUE

NextExit ==
  \/ \E th \in Threads, q \in AdhocQueries : FgCall(th, q)
  \/ \E th \in Threads : ExecStep(th)
  \/ \E th \in Threads : FgReturn(th)
  \/ \E q \in AdhocQueries : DbQuery(q)
  \/ DbExit

SpecExit == ExitInit /\ [][NextExit]_vars

NextWarm ==
  \/ \E t \in Tables : DbStartThread(t)
  \/ \E t \in Tables : WorkerRun(t)
  \/ \E t \in Tables : PopulateCall(t)
  \/ \E th \in Threads : ExecStep(th)
  \/ \E t \in Tables : PopulateReturn(t)
  \/ \E t \in Tables : DbJoinThread(t)
  \/ DbReturn
  \/ IsReadyCall
  \/ IsReadyReturn

SpecWarm == WarmInit /\ [][NextWarm]_vars

\* Database(db_path, cache, populate_cache=True, ...) over tables that are
\* empty or hold one row
WarmFairInit ==
  /\ WarmInit
  /\ populate_cache
  /\ \A t \in Tables : nrows[t] <= 1

\* the warm-up under a scheduler that lets a thread that can run, run: the
\* workers are started threads and the constructor's thread is never
\* suspended for good
SpecWarmFair == WarmFairInit /\ [][NextWarm]_vars /\ WF_vars(NextWarm)

\* Database(db_path, cache, populate_cache=False, ...) at line 91
ReadyInit == WarmInit /\ ~populate_cache

\* a session whose thread goes on populating and reading is_ready while
\* tables are created in the store
NextReady ==
  \/ DbReturn
  \/ PopulateCall("main")
  \/ \E th \in Threads : ExecStep(th)
  \/ IsReadyCall
  \/ IsReadyReturn
  \/ \E t \in Tables : FgPopulate(t)
  \/ FgPopulateReturn
  \/ \E t \in Tables : StoreCreateTable(t)

SpecReady == ReadyInit /\ [][NextReady]_vars

\* a session over one table of up to MaxRows rows, used through Table.iloc
IlocInit ==
  /\ tables = {"t1"}
  /\ nrows \in [Tables -> 0..MaxRows]
  /\ nrows["t2"] = 0
  /\ rel \in Relations(nrows["t1"])
  /\ expr_l = Expression(<<"p">>, "t1")
  /\ expr_r = Expression(<<"q">>, "t1")
  /\ CacheInit
  /\ cache_output = TRUE
  /\ max_item_size = 10
  /\ max_dict_size = 20
  /\ populate_cache = FALSE
  /\ callers = {}
  /\ pc = [th \in Threads |-> IF th \in Tables THEN "unstarted" ELSE "idle"]
  /\ started = {}
  /\ joined = {}
  /\ pop_calls = [t \in Tables |-> 0]
  /\ thread_exc = [t \in Tables |-> "none"]
  /\ constructed = TRUE

NextIloc ==
  \/ IlocNew
  \/ IlocGetInt
  \/ IlocGetList
  \/ IlocGetSlice

SpecIloc == IlocInit /\ [][NextIloc]_vars

\* a session over one table some of whose rows were deleted before the
\* session, used through Table.iloc
GapInit ==
  /\ tables = {"t1"}
  /\ nrows \in [Tables -> 0..MaxRows]
  /\ nrows["t2"] = 0
  /\ rel \in GappedRelations(nrows["t1"])
  /\ expr_l = Expression(<<"p">>, "t1")
  /\ expr_r = Expression(<<"q">>, "t1")
  /\ CacheInit
  /\ cache_output = TRUE
  /\ max_item_size = 10
  /\ max_dict_size = 20
  /\ populate_cache = FALSE
  /\ callers = {}
  /\ pc = [th \in Threads |-> IF th \in Tables THEN "unstarted" ELSE "idle"]
  /\ started = {}
  /\ joined = {}
  /\ pop_calls = [t \in Tables |-> 0]
  /\ thread_exc = [t \in Tables |-> "none"]
  /\ constructed = TRUE

SpecGap == GapInit /\ [][NextIloc]_vars

\* two predicates built from column comparisons on the tables of a session
ExprInit ==
  /\ tables = Tables
  /\ nrows = [t \in Tables |-> 2]
  /\ rel \in Relations(2)
  /\ expr_l \in AtomExprs
  /\ expr_r \in AtomExprs
  /\ CacheInit
  /\ cache_output = TRUE
  /\ max_item_size = 10
  /\ max_dict_size = 20
  /\ populate_cache = FALSE
  /\ callers = {}
  /\ pc = [th \in Threads |-> IF th \in Tables THEN "unstarted" ELSE "idle"]
  /\ started = {}
  /\ joined = {}
  /\ pop_calls = [t \in Tables |-> 0]
  /\ thread_exc = [t \in Tables |-> "none"]
  /\ constructed = TRUE

NextExpr ==
  \/ ExprAnd
  \/ ExprOr
  \/ ExprReuse
  \/ ExprFilter

SpecExpr == ExprInit /\ [][NextExpr]_vars

\* a session over one table of up to MaxRows rows whose views are created,
\* and which is closed
ViewInit == IlocInit

NextView ==
  \/ TableFilter
  \/ TableSort
  \/ TableLimit
  \/ TableCustomView
  \/ DbExit

SpecView == ViewInit /\ [][NextView]_vars

AllIdle == \A th \in callers : pc[th] = "idle"

\* ----------------------------------------------------------------- claims
HistIdx == 1..Len(hist)

\* the call found its query absent from an enabled cache
Miss(h) == cache_output /\ h.cache_before[h.query] = NoEntry

FreshSize(h) == SizeOf(h.query, EngineEval(h.query))

StoredAfter(h) == h.cache_after[h.query] # NoEntry

\* C1: whenever no execute call is in progress, mb_size equals the sum of
\* the sizes of the entries stored in the mapping (two callers missing on the
\* same query count it once).
C1_CounterEqualsSum == AllIdle => mb_size = SumSizes(cache)

\* C2: in every state the byte counter is at most max_dict_size, also when
\* execute calls miss concurrently.
C2_WithinBudget == mb_size <= max_dict_size

\* C3: on a miss with caching enabled the entry is stored iff
\* size <= max_item_size and mb_size + size <= max_dict_size; storing adds
\* exactly size to the counter and only that entry to the mapping; in every
\* case the call returns the freshly computed rows.
C3_AdmissionRule ==
  \A i \in HistIdx :
    LET h == hist[i]
        size == FreshSize(h)
    IN Miss(h) =>
         /\ StoredAfter(h) <=>
              (size <= max_item_size /\ h.mb_before + size <= max_dict_size)
         /\ StoredAfter(h) =>
              /\ h.cache_after =
                   [h.cache_before EXCEPT ![h.query] = EngineEval(h.query)]
              /\ h.mb_after = h.mb_before + size
         /\ h.ret = EngineEval(h.query)
         /\ h.execs = 1

\* C3 witness: one session admits an item, rejects one for its own size and
\* rejects one for the total budget.
C3_Witness ==
  /\ Len(hist) = 3
  /\ \A i \in HistIdx : Miss(hist[i])
  /\ StoredAfter(hist[1])
  /\ FreshSize(hist[2]) > max_item_size /\ ~StoredAfter(hist[2])
  /\ FreshSize(hist[3]) <= max_item_size /\ ~StoredAfter(hist[3])

\* C4: a rejected item (too large, or over the total budget) leaves the
\* mapping and the byte counter exactly as they were before the call.
C4_RejectFrame ==
  \A i \in HistIdx :
    LET h == hist[i]
        size == FreshSize(h)
    IN (Miss(h) /\ (size > max_item_size \/ h.mb_before + size > max_dict_size))
         => (h.cache_after = h.cache_before /\ h.mb_after = h.mb_before)

\* C4 witness: budgets 1 and 2 (10 and 20 tenths), two items of size 0.9
\* admitted, a third of size 0.5 rejected, the counter stays 1.8.
C4_Witness ==
  /\ max_item_size = 10 /\ max_dict_size = 20
  /\ Len(hist) = 3
  /\ FreshSize(hist[1]) = 9 /\ StoredAfter(hist[1])
  /\ FreshSize(hist[2]) = 9 /\ StoredAfter(hist[2]) /\ hist[2].mb_after = 18
  /\ FreshSize(hist[3]) = 5 /\ ~StoredAfter(hist[3])
  /\ hist[3].mb_before = 18 /\ mb_size = 18

\* C5 as stated: two successive execute(q) calls, the first a first-time
\* call, return equal rows and run the engine exactly once.
C5_TwiceRunsOnce ==
  \A i \in HistIdx : \A j \in HistIdx :
    (j = i + 1 /\ hist[i].query = hist[j].query
       /\ hist[i].cache_before[hist[i].query] = NoEntry)
      => /\ hist[j].ret = hist[i].ret
         /\ hist[i].execs + hist[j].execs = 1

\* C5 amended: with caching enabled, once a call leaves q stored every later
\* execute(q) is a key hit that returns the same rows with no engine
\* round-trip (one engine execution in all when the first call was a miss);
\* a call that finds q absent, or caching disabled, runs the engine once.
C5_HitAfterAdmit ==
  /\ \A i \in HistIdx : \A j \in HistIdx :
       (i < j /\ hist[i].query = hist[j].query /\ cache_output
          /\ StoredAfter(hist[i]))
         => /\ hist[j].ret = hist[i].ret
            /\ hist[j].execs = 0
            /\ hist[i].execs + hist[j].execs = (IF Miss(hist[i]) THEN 1 ELSE 0)
  /\ \A j \in HistIdx :
       (~cache_output \/ hist[j].cache_before[hist[j].query] = NoEntry)
         => hist[j].execs = 1

\* C5 witness: a miss that is admitted, then a hit on the same query.
C5_Witness ==
  \E i \in HistIdx : \E j \in HistIdx :
    /\ j = i + 1 /\ hist[i].query = hist[j].query
    /\ Miss(hist[i]) /\ StoredAfter(hist[i])
    /\ hist[i].execs = 1 /\ hist[j].execs = 0

\* C6: a stored entry stays stored with the same rows in every later state
\* and the byte counter never decreases.
C6_AdmissionOnly ==
  [][/\ \A q \in Queries : cache[q] # NoEntry => cache'[q] = cache[q]
     /\ mb_size' >= mb_size]_vars

\* C7: is_ready is false before populate has run for every known relation,
\* and true right after a blocking warm-up completes, whatever the
\* interleaving of the workers.
C7_ReadyAfterWarmup ==
  /\ ready_out = "true" => \A t \in tables : thread_exc[t] = "returned"
  /\ (constructed /\ cache_output /\ populate_cache /\ ready_out # "none")
       => ready_out = "true"

\* C8: with caching and populate-on-start enabled the constructor starts one
\* worker per base table, each worker runs populate_table once on its own
\* table, and the constructor returns only after every worker has ended;
\* with caching disabled no worker is started.
C8_OneWorkerPerTable ==
  /\ (constructed /\ cache_output /\ populate_cache)
       => /\ started = tables
          /\ \A t \in tables : pop_calls[t] = 1 /\ pc[t] = "dead"
  /\ started \subseteq tables
  /\ \A t \in Tables : pop_calls[t] <= 1
  /\ \A t \in Tables : pop_calls[t] = 1 => t \in started
  /\ ~cache_output
       => /\ started = {}
          /\ \A t \in Tables : pop_calls[t] = 0 /\ pc[t] = "unstarted"

\* C8 witness: a constructed session over two tables whose two workers have
\* each run populate_table and ended.
C8_Witness ==
  /\ constructed /\ cache_output /\ populate_cache
  /\ tables = Tables
  /\ \A t \in Tables : pop_calls[t] = 1 /\ pc[t] = "dead"

InRange(i) == 0 - Len(rel) <= i /\ i < Len(rel)

\* the position an in-range index denotes, counted from 1
Position(i) == (IF i < 0 THEN Len(rel) + i ELSE i) + 1

C18_ErrorPassThrough ==
  \A i \in HistIdx :
    LET h == hist[i] IN
      Malformed(h.query) =>
        /\ h.exc = "OperationalError"
        /\ h.cache_after = h.cache_before
        /\ h.mb_after = h.mb_before

\* C18 witness: a malformed query fails on a cache that already holds an
\* entry and has room for more.
C18_Witness ==
  \E i \in HistIdx :
    /\ Malformed(hist[i].query) /\ hist[i].exc = "OperationalError"
    /\ cache_output /\ hist[i].mb_before > 0
    /\ Admissible(SizeOf(QBad, NoRows), hist[i].mb_before)

\* C19: with caching disabled every Cache.execute call runs the query on
\* the engine and returns its rows, and the mapping stays empty with a byte
\* counter of 0, whatever calls are made.
C19_DisabledPassThrough ==
  ~cache_output =>
    /\ \A q \in Queries : cache[q] = NoEntry
    /\ mb_size = 0
    /\ \A i \in HistIdx : hist[i].ret = EngineEval(hist[i].query)
    /\ AllIdle => engine_calls = Len(hist)

\* C19 witness: three calls with caching disabled, two of them on the same
\* query, ran the engine three times.
C19_Witness ==
  /\ ~cache_output /\ AllIdle
  /\ Len(hist) = 3 /\ engine_calls = 3
  /\ hist[1].query = hist[2].query
  /\ max_item_size > 0 /\ max_dict_size > 0

\* C14: composing two predicates with & or | raises ExpressionError when
\* their owning relations differ; when they are equal the result is a new
\* predicate with the fragment '<left> AND <right>' (or '<left> OR <right>')
\* and the same owning relation; both operands are left as they were.
C14_Composition ==
  expr_out.op # "none" =>
    /\ expr_out.left = expr_l /\ expr_out.right = expr_r
    /\ IF expr_l.table # expr_r.table
         THEN expr_out.status = "ExpressionError"
         ELSE /\ expr_out.status = "ok"
              /\ expr_out.res.table = expr_l.table
              /\ Len(expr_out.res.query) = Len(expr_l.query) + Len(expr_r.query) + 1
              /\ SubSeq(expr_out.res.query, 1, Len(expr_l.query)) = expr_l.query
              /\ expr_out.res.query[Len(expr_l.query) + 1] = expr_out.op
              /\ SubSeq(expr_out.res.query, Len(expr_l.query) + 2,
                        Len(expr_out.res.query)) = expr_r.query

\* C14 witness: a predicate that is itself a conjunction is composed with |
\* to "p AND q OR p" on the one relation.
C14_Witness ==
  /\ expr_out.op = "OR" /\ expr_out.status = "ok"
  /\ expr_out.res = Expression(<<"p", "AND", "q", "OR", "p">>, "t2")

\* the last call on the session was a view-creating one
ViewCall == sess_out.op \in {"filter", "sort", "limit", "custom"}

\* C12: a view made by filtering a relation down to k matching rows has the
\* identity column 1..k, without gaps, its rows in the order of the source's
\* identities, whatever identities the matching rows had in the source.
C12_FilterIdentity ==
  (sess_out.op = "filter" /\ sess_out.status = "ok") =>
    LET v == sess_out.view
        r == RelOf(sess_out.before, v.src)
        match == {r[k].rowid : k \in {j \in 1..Len(r) : Holds(v.pred, r[j].val)}}
        k == Cardinality(match)
    IN /\ sess_out.ids = [j \in 1..k |-> j]
       /\ Len(sess_out.from) = k
       /\ {sess_out.from[j] : j \in 1..k} = match
       /\ \A i \in 1..k, j \in 1..k : i < j => sess_out.from[i] < sess_out.from[j]

\* C12 witness: two of three rows match, and they are the second and the
\* third of the source.
C12_Witness ==
  /\ sess_out.op = "filter" /\ sess_out.status = "ok"
  /\ sess_out.view.src = BaseName
  /\ sess_out.from = <<2, 3>> /\ sess_out.ids = <<1, 2>>

\* C13: a view query that does not alias a column to _rowid_ is refused with
\* ValueError, and no view is created by the refused call.
C13_RejectsUnaliased ==
  (sess_out.op = "custom" /\ ~AliasesRowid(sess_out.view.text)) =>
    /\ sess_out.status = "ValueError"
    /\ views_db = sess_out.before

\* C16: the name of every view created in the session is in Cache.views.
C16_RegistryComplete ==
  \A name \in created : \E k \in 1..Len(cache_views) : cache_views[k] = name

\* C17: once the session has ended, no view created during the session
\* exists in the store: a new connection finds none of them.
C17_NoViewSurvives ==
  ~conn_open => ViewNames(views_db) \cap created = {}

\* C17 witness: a session that created two views has been closed.
C17_Witness ==
  /\ ~conn_open /\ Cardinality(created) = 2
  /\ sess_out.op = "exit" /\ Cardinality(sess_out.before) = 2

ExitAndDirectQueries ==
  /\ sess_out.op = "exit" => (~conn_open /\ sess_out.status = "ok")
  /\ (sess_out.op = "exit" /\ sess_out.warned) =>
       (~conn_open /\ views_db = sess_out.before)
  /\ (sess_out.op = "query" /\ ~conn_open) => sess_out.status = "ProgrammingError"

\* C15: a session is open or closed: exit() closes an open one, every query
\* issued afterwards fails with the closed-database error, and a further
\* exit() raises nothing, only warns, and leaves the session closed.
C15_ClosedSession ==
  /\ ExitAndDirectQueries
  /\ \A i \in HistIdx :
       ~hist[i].conn_before => hist[i].exc = "ProgrammingError"

\* C29: for a slice s with a negative step on a relation of length n,
\* iloc[s] is the list of iloc[i] for i in range(*s.indices(n)): every
\* requested position once, in the requested (descending) order.
C29_NegativeSliceAgreement ==
  (iloc_out.kind = "slice" /\ StepOf(iloc_out.slc) < 0) =>
    LET r == RangeSeq(slice_indices(iloc_out.slc, Len(rel))) IN
      /\ iloc_out.status = "ok"
      /\ Len(iloc_out.rows) = Len(r)
      /\ \A k \in 1..Len(r) :
           /\ GetInt(Iloc, r[k]).status = "ok"
           /\ iloc_out.rows[k] = GetInt(Iloc, r[k]).row

\* the identities of the rows of t1 that satisfy both operands of the last
\* composition (for AND) or one of them (for OR)
GroupedSelection ==
  Ascending({rel[k].rowid : k \in {j \in 1..Len(rel) :
    IF expr_out.op = "AND"
      THEN Holds(expr_out.left.query, rel[j].val) /\ Holds(expr_out.right.query, rel[j].val)
      ELSE Holds(expr_out.left.query, rel[j].val) \/ Holds(expr_out.right.query, rel[j].val)}})

\* C28: predicate composition keeps the caller's grouping: filtering by
\* (a | b) & c selects exactly the rows that satisfy (a OR b) AND c, and
\* filtering by a & (b | c) exactly those that satisfy a AND (b OR c).
C28_GroupingKept ==
  (/\ sess_out.op = "filter" /\ sess_out.status = "ok"
   /\ expr_out.status = "ok" /\ expr_out.op = "AND"
   /\ sess_out.view.pred = expr_out.res.query
   /\ \/ expr_out.left.query \in {<<x, "OR", y>> : x \in {"p", "q"}, y \in {"p", "q"}}
         /\ Len(expr_out.right.query) = 1
      \/ expr_out.right.query \in {<<x, "OR", y>> : x \in {"p", "q"}, y \in {"p", "q"}}
         /\ Len(expr_out.left.query) = 1)
    => sess_out.from = GroupedSelection

\* C21: filters compose conjunctively: relation.filter(a).filter(b) has the
\* rows of relation.filter(a & b), in the same order, and its identity
\* column is again 1..k.
C21_FiltersCompose ==
  (/\ sess_out.op = "filter" /\ sess_out.status = "ok"
   /\ sess_out.view.src # BaseName
   /\ ViewNamed(sess_out.before, sess_out.view.src).kind = "filter") =>
    LET b == sess_out.view
        a == ViewNamed(sess_out.before, b.src)
        r == RelOf(sess_out.before, a.src)
        first == FilterFrom(r, a.pred)
        chained == [k \in 1..Len(sess_out.from) |-> first[sess_out.from[k]]]
        both == Compose("AND", Expression(a.pred, "t1"), Expression(b.pred, "t1")).res
    IN /\ chained = FilterFrom(r, both.query)
       /\ sess_out.ids = [k \in 1..Len(chained) |-> k]

\* the contents of the rows of r ordered by val, ascending or descending
SortedVals(r, asc) ==
  LET na == Cardinality({k \in 1..Len(r) : r[k].val = "a"})
      nb == Len(r) - na
  IN [k \in 1..Len(r) |->
        IF asc THEN (IF k <= na THEN "a" ELSE "b")
               ELSE (IF k <= nb THEN "b" ELSE "a")]

\* C22: a view made by sorting gets its identity after the sort: for a
\* sorted view of length n and every i in [0, n), iloc[i] on the view is the
\* i-th row of the source ordered by the requested key and direction.
C22_SortedIdentity ==
  (sess_out.op = "sort" /\ sess_out.status = "ok") =>
    LET v == sess_out.view
        r == RelOf(sess_out.before, v.src)
        self == TableIloc(v.name)
    IN /\ self.len = Len(r)
       /\ \A i \in 0..(Len(r) - 1) :
            /\ GetInt(self, i).status = "ok"
            /\ GetInt(self, i).row = SortedVals(r, v.asc)[i + 1]

\* C22 witness: t1 holds a, b, a and is sorted descending: position 0 of the
\* view is the b of position 1 of t1, position 1 the a of position 0.
C22_Witness ==
  /\ sess_out.op = "sort" /\ sess_out.status = "ok"
  /\ sess_out.view.src = BaseName /\ ~sess_out.view.asc
  /\ Enumerate(rel) = <<"a", "b", "a">>
  /\ GetInt(TableIloc(sess_out.name), 0).row = "b"
  /\ GetInt(TableIloc(sess_out.name), 1).row = "a"

C23_ExactlyOneRow ==
  (sess_out.op = "custom" /\ sess_out.status = "ok") =>
    LET self == TableIloc(sess_out.name) IN
      \A i \in IdxRange :
        LET a == index_abs(self, i) IN
          (validate_index(self, a) /\ Len(FetchEq(Rows(self.table), a + 1)) # 1)
            => GetInt(self, i).status # "ok"

\* the identities a list or slice request asks the engine for
Requested ==
  IF iloc_out.kind = "list"
    THEN {index_abs(Iloc, iloc_out.lst[k]) + 1 : k \in 1..Len(iloc_out.lst)}
    ELSE LET ix == SliceIndexes(Iloc, iloc_out.slc) IN {ix[k] : k \in 1..Len(ix)}

\* C24: a list or slice request whose batched fetch returns fewer identities
\* than were requested raises an error; it does not return a shorter or
\* partial result.
C24_NoPartialResult ==
  (/\ iloc_out.kind \in {"list", "slice"}
   /\ iloc_out.kind = "slice" => StepOf(iloc_out.slc) # 0
   /\ ~(Requested \subseteq {rel[k].rowid : k \in 1..Len(rel)}))
    => iloc_out.status # "ok"

\* C26: readiness is stable: once a read of is_ready has returned true, no
\* later read returns false, whatever populate calls are made and whatever
\* base tables are created in between.
C26_ReadyStable == [][ready_out = "true" => ready_out' # "false"]_vars

\* C30: reading is_ready is a pure observation: no step of the read changes
\* the cache mapping, the byte counter or the ready counter, with caching
\* enabled or disabled.
C30_ReadIsPure ==
  [][(loc["main"].ctx = "is_ready" \/ loc'["main"].ctx = "is_ready")
       => (cache' = cache /\ mb_size' = mb_size /\ ready_count' = ready_count)]_vars

\* a warm-up worker whose populate_table call ended in an exception
Failed(t) == thread_exc[t] # "none"

\* C27: a warm-up worker whose populate fails part-way adds nothing to the
\* ready counter and no read of is_ready returns true after it; from that
\* failure on, construction goes on to return, with every worker of the
\* session run to its end.
C27_FailedWorkerContained ==
  /\ [](\A t \in Tables :
          Failed(t) => /\ ready_count = 0
                       /\ ready_out # "true")
  /\ \A t \in Tables :
       Failed(t) ~> (constructed /\ \A u \in tables : pc[u] = "dead")

\* two workers have failed, construction has returned and is_ready was read
C27_Witness ==
  /\ constructed
  /\ tables = {"t1", "t2"}
  /\ \A t \in tables : Failed(t) /\ pc[t] = "dead"
  /\ ready_count = 0
  /\ ready_out = "false"

====
